---- MODULE Spec2Model ----
(***************************************************************************)
(* Model of etl.py: the two stages of the Sparkify data-lake pipeline,     *)
(* process_song_data and process_log_data, run in sequence by main().      *)
(*                                                                         *)
(* A DataFrame is a bag of rows (a function from row to its number of      *)
(* copies); a row is a record keyed by column name.  A parquet dataset     *)
(* under the output root is the bag of rows last written to its path.      *)
(* Row order is not part of a DataFrame's value here: the datasets are     *)
(* written as partitioned parquet files, which keep no global order.       *)
(***************************************************************************)
EXTENDS Integers, Sequences, FiniteSets, Bags, TLC

\* ------------------------------------------------------------------------
\* Bounds of the model
\* ------------------------------------------------------------------------
\* largest number of records under song_data/
MaxSongs == 2
\* largest number of records under log_data/
MaxEvents == 2

Null == "null"

\* ------------------------------------------------------------------------
\* Decimal strings: str(int) and int(str) of Python
\* ------------------------------------------------------------------------
DigitChars == <<"0", "1", "2", "3", "4", "5", "6", "7", "8", "9">>

DigitOf(c) == (CHOOSE i \in 1..10 : DigitChars[i] = c) - 1

RECURSIVE str(_)
\* str(n) for a non-negative int: its decimal digits, most significant first
str(n) == IF n < 10 THEN <<DigitChars[n + 1]>>
          ELSE Append(str(n \div 10), DigitChars[(n % 10) + 1])

RECURSIVE int(_)
\* int(s) for a string of decimal digits
int(s) == IF Len(s) = 0 THEN 0
          ELSE 10 * int(SubSeq(s, 1, Len(s) - 1)) + DigitOf(s[Len(s)])

\* n as exactly w digits, zero padded on the left (strftime's %Y, %m, %d ...)
RECURSIVE Pad(_, _)
Pad(n, w) == IF w = 0 THEN <<>>
             ELSE Append(Pad(n \div 10, w - 1), DigitChars[(n % 10) + 1])

\* ------------------------------------------------------------------------
\* 64-bit event timestamps.  `ts` is a JSON integer of milliseconds since
\* the epoch (about 1.5 * 10^12), read by Spark as a long.  A long is kept
\* as two decimal limbs, ts = hi * 10^6 + lo with 0 <= lo < 10^6, so that
\* every intermediate value stays inside TLC's 32-bit integers.
\* ------------------------------------------------------------------------
Long(hi, lo) == [hi |-> hi, lo |-> lo]

\* int(int(x)/1000): the quotient truncated to whole seconds.  For the
\* non-negative millisecond values of the logs the float quotient of
\* Python's true division truncates to the integer quotient.
MillisToSeconds(x) == (x.hi * 1000) + (x.lo \div 1000)

\* get_timestamp = udf(lambda x: str(int(int(x)/1000)))
get_timestamp(x) == str(MillisToSeconds(x))

\* ------------------------------------------------------------------------
\* Calendar calculus (proleptic Gregorian calendar, as datetime and Spark)
\* ------------------------------------------------------------------------
\* civil date of a day number counted from 1970-01-01
CivilFromDays(days) ==
    LET z   == days + 719468
        era == z \div 146097
        doe == z - (era * 146097)
        yoe == (doe - (doe \div 1460) + (doe \div 36524) - (doe \div 146096)) \div 365
        doy == doe - ((365 * yoe) + (yoe \div 4) - (yoe \div 100))
        mp  == ((5 * doy) + 2) \div 153
        d   == doy - (((153 * mp) + 2) \div 5) + 1
        m   == IF mp < 10 THEN mp + 3 ELSE mp - 9
        y   == yoe + (era * 400) + (IF m <= 2 THEN 1 ELSE 0)
    IN  [year |-> y, month |-> m, day |-> d]

\* day number counted from 1970-01-01 of a civil date
DaysFromCivil(y0, m, d) ==
    LET y   == IF m <= 2 THEN y0 - 1 ELSE y0
        era == y \div 400
        yoe == y - (era * 400)
        mp  == IF m > 2 THEN m - 3 ELSE m + 9
        doy == (((153 * mp) + 2) \div 5) + d - 1
        doe == (yoe * 365) + (yoe \div 4) - (yoe \div 100) + doy
    IN  (era * 146097) + doe - 719468

\* str(datetime.fromtimestamp(secs)) in a process whose local time is
\* `tz` seconds east of UTC: the 19 characters 'YYYY-MM-DD HH:MM:SS'
FormatDatetime(secs, tz) ==
    LET loc  == secs + tz
        days == loc \div 86400
        sod  == loc % 86400
        c    == CivilFromDays(days)
    IN  Pad(c.year, 4) \o <<"-">> \o Pad(c.month, 2) \o <<"-">> \o Pad(c.day, 2)
        \o <<" ">> \o Pad(sod \div 3600, 2) \o <<":">> \o Pad((sod % 3600) \div 60, 2)
        \o <<":">> \o Pad(sod % 60, 2)

\* get_datetime = udf(lambda x: str(datetime.fromtimestamp(int(x))))
get_datetime(x, tz) == FormatDatetime(int(x), tz)

\* Spark's date functions on a 'YYYY-MM-DD HH:MM:SS' string column: the
\* string is cast to a timestamp and the field read off it
year(dt) == int(SubSeq(dt, 1, 4))
month(dt) == int(SubSeq(dt, 6, 7))
dayofmonth(dt) == int(SubSeq(dt, 9, 10))
hour(dt) == int(SubSeq(dt, 12, 13))

\* dayofweek: 1 = Sunday ... 7 = Saturday (1970-01-01 was a Thursday)
dayofweek(dt) ==
    ((DaysFromCivil(year(dt), month(dt), dayofmonth(dt)) + 4) % 7) + 1

IsLeap(y) == (y % 4 = 0) /\ ((y % 100 # 0) \/ (y % 400 = 0))

\* number of ISO weeks of year y: 53 when Jan 1 is a Thursday, or a
\* Wednesday in a leap year
IsoWeeksIn(y) ==
    LET jan1 == ((DaysFromCivil(y, 1, 1) + 3) % 7) + 1   \* 1 = Monday
    IN  IF jan1 = 4 \/ (jan1 = 3 /\ IsLeap(y)) THEN 53 ELSE 52

\* weekofyear: ISO 8601 week number
weekofyear(dt) ==
    LET y    == year(dt)
        n    == DaysFromCivil(y, month(dt), dayofmonth(dt))
        doy  == n - DaysFromCivil(y, 1, 1) + 1
        wd   == ((n + 3) % 7) + 1                        \* 1 = Monday
        w    == (doy - wd + 10) \div 7
    IN  IF w < 1 THEN IsoWeeksIn(y - 1)
        ELSE IF w > IsoWeeksIn(y) THEN 1
        ELSE w

\* ------------------------------------------------------------------------
\* DataFrames as bags of rows
\* ------------------------------------------------------------------------
\* df.filter(condition): the rows of df that are in `keep`, the rows on
\* which the condition holds
Filter(df, keep) == [r \in (DOMAIN df) \cap keep |-> df[r]]

\* df.select(...) / df.withColumn(...): every row r mapped to f[r], copies
\* kept
Select(df, f) == BagOfAll(LAMBDA r : f[r], df)

\* the columns `cols` of row r
Project(r, cols) == [c \in cols |-> r[c]]

\* r with column `name` set to v (added, or replaced when present)
WithColumn(r, name, v) == (name :> v) @@ r

\* df.drop_duplicates(): one copy of every distinct row
drop_duplicates(df) == SetToBag(BagToSet(df))

\* df.drop_duplicates(subset): one row for every distinct value of the key
\* columns.  Which of the rows sharing a key is kept is up to the engine
\* (the first one of whatever order the shuffle delivers), so the result
\* is any of these tables.
drop_duplicates_subset(df, subset) ==
    LET rows == DOMAIN df
        keys == {Project(r, subset) : r \in rows}
        picks == {c \in [keys -> rows] : \A k \in keys : Project(c[k], subset) = k}
    IN  {SetToBag({c[k] : k \in keys}) : c \in picks}

\* df.join(other, on): inner join, one row per pair of row copies that is
\* in `on`, the pairs of rows on which the join condition holds
join(df, other, on) ==
    LET pairs == ((DOMAIN df) \X (DOMAIN other)) \cap on
        rows  == {p[1] @@ p[2] : p \in pairs}
    IN  [j \in rows |->
            LET p == CHOOSE q \in pairs : q[1] @@ q[2] = j
            IN  df[p[1]] * other[p[2]]]

\* withColumn(name, monotonically_increasing_id()): every row copy gets an
\* id of its own, the rows of a partition numbered 0, 1, 2 ... in the order
\* the partition delivers them (a further partition p numbers its rows from
\* p * 2^33 on; the rows are taken to arrive in one partition).  The order
\* is up to the engine, so the result is any of these tables.
monotonically_increasing_id(df, name) ==
    LET copies == {<<r, k>> \in (DOMAIN df) \X (1..BagCardinality(df)) : k <= df[r]}
        ids    == 0..(Cardinality(copies) - 1)
        assign == {f \in [copies -> ids] : \A a, b \in copies : f[a] = f[b] => a = b}
    IN  {SetToBag({WithColumn(c[1], name, f[c]) : c \in copies}) : f \in assign}

\* .write.mode('overwrite').parquet(path): the dataset at the path is
\* replaced by the table
\* variant: mode('append')
OverwriteMut(existing, table) == existing (+) table
overwrite(existing, table) == table

\* ------------------------------------------------------------------------
\* Input data: the records the two globs can deliver
\* ------------------------------------------------------------------------
SongColumns ==
    {"song_id", "title", "artist_id", "artist_name", "artist_location",
     "artist_latitude", "artist_longitude", "year", "duration", "num_songs"}

\* a record of song_data/*/*/*/*.json; duration in hundredths of a second
Song(id, title, artist, name, loc, yr, dur) ==
    [song_id |-> id, title |-> title, artist_id |-> artist, artist_name |-> name,
     artist_location |-> loc, artist_latitude |-> Null, artist_longitude |-> Null,
     year |-> yr, duration |-> dur, num_songs |-> 1]

\* a record of log_data/*/*/*.json; length in hundredths of a second
Event(page, user, level, ts, song, artist, len, session) ==
    [page |-> page, userId |-> user, firstName |-> "Ann", lastName |-> "Lee",
     gender |-> "F", level |-> level, ts |-> ts, song |-> song, artist |-> artist,
     length |-> len, sessionId |-> session, location |-> "Recife",
     userAgent |-> "Mozilla"]

\* S1 and S2 are the same song whose artist is recorded with two locations;
\* S3 reuses S1's song_id for another song by another artist.
SongPool ==
    {Song("T1", "Song A", "C1", "Artist X", "loc1", 2000, 20000),
     Song("T1", "Song A", "C1", "Artist X", "loc2", 2000, 20000),
     Song("T1", "Song B", "C2", "Artist Y", "loc1", 2018, 20001)}

\* E1 plays Song A and E4 plays Song B; E2 plays Song A with a length that
\* differs in the last digit, in the same second as E1 and after a change
\* of level; E3 is not a song play but carries the fields of one.
LogPool ==
    {Event("NextSong", "u1", "free", Long(1541106, 106796), "Song A", "Artist X", 20000, 5),
     Event("NextSong", "u1", "paid", Long(1541106, 106999), "Song A", "Artist X", 20001, 5),
     Event("Home",     "u3", "free", Long(1546300, 799999), "Song A", "Artist X", 20000, 7),
     Event("NextSong", "u2", "free", Long(1000000, 0),      "Song B", "Artist Y", 20001, 6)}

\* the bags of at most n records of pool
RECURSIVE BagsOver(_, _)
BagsOver(pool, n) ==
    IF n = 0 THEN {EmptyBag}
    ELSE LET smaller == BagsOver(pool, n - 1)
         IN  smaller \cup {b (+) SetToBag({r}) : b \in smaller, r \in pool}

\* local time zones of the executing process, seconds east of UTC
TimeZones == {0, 3600}

\* ------------------------------------------------------------------------
\* State
\* ------------------------------------------------------------------------
VARIABLES
    song_data,   \* the records under input_data/song_data
    log_data,    \* the records under input_data/log_data
    tz,          \* local time zone of the process running the job
    songs,       \* dataset at output_data/songs/songs.parquet
    artists,     \* dataset at output_data/artists/artists.parquet
    users,       \* dataset at output_data/users/users.parquet
    times,       \* dataset at output_data/times/time_data.parquet
    songplays,   \* dataset at output_data/songplays/songplays.parquet
    pc,          \* where main() is: before, between or after its two calls
    written,     \* the datasets the current run has written so far
    err,         \* the read that raised in the current run, or Null
    rerun,       \* the current run started on the input of a completed run
    last         \* when rerun: the five datasets as that run left them

vars == <<song_data, log_data, tz, songs, artists, users, times, songplays,
          pc, written, err, rerun, last>>

inputs == <<song_data, log_data, tz>>
outputs == <<songs, artists, users, times, songplays>>

Snapshot ==
    [songs |-> songs, artists |-> artists, users |-> users, times |-> times,
     songplays |-> songplays]

NoSnapshot ==
    [songs |-> EmptyBag, artists |-> EmptyBag, users |-> EmptyBag,
     times |-> EmptyBag, songplays |-> EmptyBag]

Init ==
    /\ song_data \in BagsOver(SongPool, MaxSongs)
    /\ log_data \in BagsOver(LogPool, MaxEvents)
    /\ tz \in TimeZones
    /\ songs = EmptyBag /\ artists = EmptyBag /\ users = EmptyBag
    /\ times = EmptyBag /\ songplays = EmptyBag
    /\ pc = "idle"
    /\ written = {} /\ err = Null
    /\ rerun = FALSE /\ last = NoSnapshot

\* ------------------------------------------------------------------------
\* The tables of process_song_data
\* ------------------------------------------------------------------------
SongsSelect(r) == Project(r, {"song_id", "title", "artist_id", "year", "duration"})

\* variant: the select without drop_duplicates
SongsTableMut(d) == {Select(d, [r \in DOMAIN d |-> SongsSelect(r)])}
\* df.select('song_id', 'title', 'artist_id', 'year', 'duration')
\*   .drop_duplicates(['song_id'])
songs_table(d) ==
    drop_duplicates_subset(Select(d, [r \in DOMAIN d |-> SongsSelect(r)]), {"song_id"})

ArtistsSelect(r) ==
    Project(r, {"artist_id", "artist_name", "artist_location", "artist_latitude",
                "artist_longitude"})

\* df.select('artist_id', 'artist_name', 'artist_location', 'artist_latitude',
\*   'artist_longitude').drop_duplicates(['artist_id'])
artists_table(d) ==
    drop_duplicates_subset(Select(d, [r \in DOMAIN d |-> ArtistsSelect(r)]), {"artist_id"})

\* ------------------------------------------------------------------------
\* The tables of process_log_data
\* ------------------------------------------------------------------------
\* variant: no filter
NextSongMut(r) == TRUE
\* df['page'] == 'NextSong'
NextSong(r) == r.page = "NextSong"

\* df.filter(df['page'] == 'NextSong')
Filtered(logs) == Filter(logs, {r \in DOMAIN logs : NextSong(r)})

UsersSelect(r) == Project(r, {"userId", "firstName", "lastName", "gender", "level"})

\* variant: drop_duplicates(['level'])
UsersTableMut(d) ==
    drop_duplicates_subset(Select(d, [r \in DOMAIN d |-> UsersSelect(r)]), {"level"})
\* df.select('userId', 'firstName', 'lastName', 'gender', 'level')
\*   .drop_duplicates(['userId'])
users_table(d) ==
    drop_duplicates_subset(Select(d, [r \in DOMAIN d |-> UsersSelect(r)]), {"userId"})

\* df.withColumn('timestamp', get_timestamp(df.ts))
\*   .withColumn('datetime', get_datetime(df.timestamp))
WithDatetime(r, zone) ==
    LET t == WithColumn(r, "timestamp", get_timestamp(r.ts))
    IN  WithColumn(t, "datetime", get_datetime(t.timestamp, zone))

TimeSelect(r) ==
    [start_time |-> r.datetime, hour |-> hour(r.datetime),
     day |-> dayofmonth(r.datetime), week |-> weekofyear(r.datetime),
     month |-> month(r.datetime), year |-> year(r.datetime),
     weekday |-> dayofweek(r.datetime)]

\* df.select('datetime').withColumn('start_time', df.datetime) ...
\*   .select('start_time', 'hour', 'day', 'week', 'month', 'year', 'weekday')
\*   .drop_duplicates(['start_time']).orderBy('start_time')
time_table(d) ==
    drop_duplicates_subset(Select(d, [r \in DOMAIN d |-> TimeSelect(r)]), {"start_time"})

\* variant: join on title and artist name alone
JoinOnMut(e, s) == e.song = s.title /\ e.artist = s.artist_name
\* [df.song == song_df.title, df.artist == song_df.artist_name,
\*  df.length == song_df.duration]
JoinOn(e, s) ==
    e.song = s.title /\ e.artist = s.artist_name /\ e.length = s.duration

\* the select of the songplays table; `year` is the only column of that
\* name in the joined frame, the one that song_df brings
SongplaysSelect(r) ==
    [songplay_id |-> r.songplay_id, start_time |-> r.datetime, user_id |-> r.userId,
     level |-> r.level, song_id |-> r.song_id, artist_id |-> r.artist_id,
     session_id |-> r.sessionId, location |-> r.location,
     user_agent |-> r.userAgent, year |-> r.year, month |-> month(r.datetime)]

\* the row of song_df columns an outer join pairs an unmatched event with
NullSong == [c \in SongColumns |-> Null]

\* the pairs of a row of d and a row of sd on which the join condition holds
OnPairs(d, sd) == {p \in (DOMAIN d) \X (DOMAIN sd) : JoinOn(p[1], p[2])}

\* variant: join(..., how='left')
JoinedLeftMut(d, sd) ==
    LET unmatched == {e \in DOMAIN d : \A s \in DOMAIN sd : ~JoinOn(e, s)}
    IN  drop_duplicates(join(d, sd, OnPairs(d, sd))
                        (+) SetToBag({e @@ NullSong : e \in unmatched}))
\* variant: the join without drop_duplicates()
JoinedMut(d, sd) == join(d, sd, OnPairs(d, sd))
\* df.join(song_df, [...]).drop_duplicates()
Joined(d, sd) == drop_duplicates(join(d, sd, OnPairs(d, sd)))

\* ... .withColumn('songplay_id', monotonically_increasing_id()).select(...)
songplays_table(d, sd) ==
    {Select(t, [r \in DOMAIN t |-> SongplaysSelect(r)]) :
        t \in monotonically_increasing_id(Joined(d, sd), "songplay_id")}

\* df after the filter and the two withColumn calls of process_log_data
LogFrame(logs, zone) ==
    LET played == Filtered(logs)
    IN  Select(played, [r \in DOMAIN played |-> WithDatetime(r, zone)])

\* ------------------------------------------------------------------------
\* Actions
\* ------------------------------------------------------------------------
Stopped == pc \in {"idle", "done", "failed"}

\* main() is started
Start ==
    /\ Stopped
    /\ pc' = "song"
    /\ rerun' = (pc = "done")
    /\ last' = IF pc = "done" THEN Snapshot ELSE NoSnapshot
    /\ written' = {}
    /\ err' = Null
    /\ UNCHANGED <<inputs, outputs>>

\* after a completed run a record arrives under, or is removed from, an
\* input root.  The inputs do not change while main() runs, and a run that
\* raised is retried on the input it raised on.
ChangeInput ==
    /\ pc = "done"
    /\ \/ \E r \in SongPool :
            /\ \/ /\ BagCardinality(song_data) < MaxSongs
                  /\ song_data' = song_data (+) SetToBag({r})
               \/ /\ BagIn(r, song_data)
                  /\ song_data' = song_data (-) SetToBag({r})
            /\ UNCHANGED log_data
       \/ \E r \in LogPool :
            /\ \/ /\ BagCardinality(log_data) < MaxEvents
                  /\ log_data' = log_data (+) SetToBag({r})
               \/ /\ BagIn(r, log_data)
                  /\ log_data' = log_data (-) SetToBag({r})
            /\ UNCHANGED song_data
    /\ pc' = "idle"
    /\ written' = {}
    /\ err' = Null
    /\ rerun' = FALSE
    /\ last' = NoSnapshot
    /\ UNCHANGED <<tz, outputs>>

\* a spark.read.json raises: the exception leaves the stage and main()
Raise(at) ==
    /\ pc' = "failed"
    /\ err' = at
    /\ UNCHANGED <<inputs, rerun, last>>

\* process_song_data(spark, input_data, output_data)
ProcessSongData ==
    /\ pc = "song"
    /\ \/ \* line 43 raises
          /\ Raise("read_song_data")
          /\ UNCHANGED <<outputs, written>>
       \/ \* line 43 reads, lines 46-59 write the two tables
          /\ \E t \in songs_table(song_data) : songs' = overwrite(songs, t)
          /\ \E t \in artists_table(song_data) : artists' = overwrite(artists, t)
          /\ written' = written \cup {"songs", "artists"}
          /\ pc' = "log"
          /\ UNCHANGED <<inputs, users, times, songplays, err, rerun, last>>

\* process_log_data(spark, input_data, output_data)
ProcessLogData ==
    /\ pc = "log"
    /\ \/ \* line 81 raises
          /\ Raise("read_log_data")
          /\ UNCHANGED <<outputs, written>>
       \/ \* lines 81-114 read the logs and write users and times
          LET df == LogFrame(log_data, tz) IN
          /\ \E t \in users_table(Filtered(log_data)) :
                users' = overwrite(users, t)
          /\ \E t \in time_table(df) : times' = overwrite(times, t)
          /\ \/ \* line 118 raises
                /\ Raise("reread_song_data")
                /\ written' = written \cup {"users", "times"}
                /\ UNCHANGED <<songs, artists, songplays>>
             \/ \* line 118 reads, lines 121-140 write songplays
                /\ \E t \in songplays_table(df, song_data) :
                      songplays' = overwrite(songplays, t)
                /\ written' = written \cup {"users", "times", "songplays"}
                /\ pc' = "done"
                /\ UNCHANGED <<inputs, songs, artists, err, rerun, last>>

Next ==
    \/ Start
    \/ ChangeInput
    \/ ProcessSongData
    \/ ProcessLogData

Spec == Init /\ [][Next]_vars

\* ------------------------------------------------------------------------
\* Properties
\* ------------------------------------------------------------------------
\* the filtered events and the catalog records of the current input
PlayEvents == {e \in DOMAIN log_data : e.page = "NextSong"}
Catalog == DOMAIN song_data

\* start_time of event e in this process
StartTimeOf(e) == get_datetime(get_timestamp(e.ts), tz)

\* songplays row r carries the event columns of event e
FromEvent(r, e) ==
    /\ r.start_time = StartTimeOf(e)
    /\ r.user_id = e.userId
    /\ r.level = e.level
    /\ r.session_id = e.sessionId
    /\ r.location = e.location
    /\ r.user_agent = e.userAgent

\* catalog record s equals event e on title, artist name and duration
Matches(e, s) ==
    /\ s.title = e.song
    /\ s.artist_name = e.artist
    /\ s.duration = e.length

\* number of songplays rows, copies counted, that come from event e
RowsOf(e) ==
    BagCardinality(Filter(songplays, {r \in DOMAIN songplays : FromEvent(r, e)}))

\* number of catalog records, copies counted, that match event e
RECURSIVE SumCopies(_, _)
SumCopies(bag, rows) ==
    IF rows = {} THEN 0
    ELSE LET r == CHOOSE x \in rows : TRUE
         IN  bag[r] + SumCopies(bag, rows \ {r})

CopiesMatching(e) == SumCopies(song_data, {s \in Catalog : Matches(e, s)})

\* a songplays row without its songplay_id
StripId(r) == Project(r, (DOMAIN r) \ {"songplay_id"})

\* no row of the table occurs twice and no two rows share the key columns
UniqueKey(table, key) ==
    /\ \A r \in DOMAIN table : table[r] = 1
    /\ \A a, b \in DOMAIN table : Project(a, key) = Project(b, key) => a = b

\* C1: every songplays row has the calendar year and month of its own
\* start_time in its year and month columns.
C1_PartitionConsistency ==
    \A r \in DOMAIN songplays :
        /\ r.year = year(r.start_time)
        /\ r.month = month(r.start_time)

\* C2: a stage whose read of a source raised has written none of its own
\* tables: process_song_data neither songs nor artists, process_log_data
\* none of users, times and songplays.
C2_NoPartialOutput ==
    pc = "failed" =>
        IF err = "read_song_data"
        THEN written \cap {"songs", "artists"} = {}
        ELSE written \cap {"users", "times", "songplays"} = {}

\* C3: every songplays row of a completed run has the song_id and artist_id
\* of a catalog record that equals the row's originating event on title,
\* artist name and duration.
C3_JoinSoundness ==
    pc = "done" =>
        \A r \in DOMAIN songplays :
            \E e \in PlayEvents, s \in Catalog :
                /\ FromEvent(r, e)
                /\ r.song_id = s.song_id
                /\ r.artist_id = s.artist_id
                /\ s.title = e.song
                /\ s.artist_name = e.artist
                /\ s.duration = e.length

\* an event that agrees with a catalog record on title and artist name but
\* not on duration was processed, next to one that joined
C3_Witness ==
    /\ pc = "done"
    /\ songplays # EmptyBag
    /\ \E e \in PlayEvents, s \in Catalog :
          e.song = s.title /\ e.artist = s.artist_name /\ e.length # s.duration

\* C4: after a completed run no row of songplays, users or times comes from
\* a log record whose page is not NextSong: each row is the row of a
\* NextSong record.
C4_FilterCorrectness ==
    pc = "done" =>
        /\ \A r \in DOMAIN songplays :
              \E e \in DOMAIN log_data : e.page = "NextSong" /\ FromEvent(r, e)
        /\ \A r \in DOMAIN users :
              \E e \in DOMAIN log_data : e.page = "NextSong" /\ r = UsersSelect(e)
        /\ \A r \in DOMAIN times :
              \E e \in DOMAIN log_data :
                  e.page = "NextSong" /\ r.start_time = StartTimeOf(e)

\* a record of another page that matches a catalog record was in the input
\* of a completed run that wrote songplays rows
C4_Witness ==
    /\ pc = "done"
    /\ songplays # EmptyBag
    /\ \E e \in DOMAIN log_data, s \in Catalog :
          e.page # "NextSong" /\ Matches(e, s)

\* C5: after a completed run every start_time of songplays is a start_time
\* of times and every user_id of songplays is a userId of users.
C5_ReferentialCompleteness ==
    pc = "done" =>
        \A r \in DOMAIN songplays :
            /\ \E t \in DOMAIN times : t.start_time = r.start_time
            /\ \E u \in DOMAIN users : u.userId = r.user_id

\* a completed run wrote songplays rows of two users at two start times
C5_Witness ==
    /\ pc = "done"
    /\ \E a, b \in DOMAIN songplays :
          a.user_id # b.user_id /\ a.start_time # b.start_time

\* catalog records that share a song_id agree on the songs columns, and
\* those that share an artist_id agree on the artists columns
CatalogConsistent ==
    \A a, b \in Catalog :
        /\ a.song_id = b.song_id => SongsSelect(a) = SongsSelect(b)
        /\ a.artist_id = b.artist_id => ArtistsSelect(a) = ArtistsSelect(b)

\* NextSong records that share a userId agree on the users columns
ListenersConsistent ==
    \A a, b \in PlayEvents : a.userId = b.userId => UsersSelect(a) = UsersSelect(b)

\* process_song_data has run again on the input of the completed run before
SongStageRerun == rerun /\ pc \in {"log", "done"}

\* C6 as stated: process_song_data run twice on the same input writes the
\* same songs and artists datasets, whatever the input.
C6_DedupIdempotence ==
    SongStageRerun => songs = last.songs /\ artists = last.artists

\* C6 amended: process_song_data run twice on the same input writes the
\* same songs and artists datasets when the catalog records that share a
\* song_id or an artist_id agree on the columns of the table.
C6_DedupIdempotenceConsistent ==
    (SongStageRerun /\ CatalogConsistent) =>
        songs = last.songs /\ artists = last.artists

\* the stage ran twice on an input with two records of one key
C6_Witness ==
    /\ SongStageRerun
    /\ CatalogConsistent
    /\ BagCardinality(song_data) >= 2
    /\ songs # EmptyBag

\* C7: after a completed run no dataset has two rows with the same key, and
\* the keys of each dimension table are the distinct key values of the
\* (filtered) input.
C7_KeyUniqueness ==
    pc = "done" =>
        /\ UniqueKey(songs, {"song_id"})
        /\ {r.song_id : r \in DOMAIN songs} = {s.song_id : s \in Catalog}
        /\ UniqueKey(artists, {"artist_id"})
        /\ {r.artist_id : r \in DOMAIN artists} = {s.artist_id : s \in Catalog}
        /\ UniqueKey(users, {"userId"})
        /\ {r.userId : r \in DOMAIN users} = {e.userId : e \in PlayEvents}
        /\ UniqueKey(times, {"start_time"})
        /\ {r.start_time : r \in DOMAIN times} = {StartTimeOf(e) : e \in PlayEvents}
        /\ UniqueKey(songplays, {"songplay_id"})

\* a completed run on inputs in which records share every one of the keys
C7_Witness ==
    /\ pc = "done"
    /\ \E a, b \in Catalog : a # b /\ a.song_id = b.song_id /\ a.artist_id = b.artist_id
    /\ \E a, b \in PlayEvents :
          a # b /\ a.userId = b.userId /\ StartTimeOf(a) = StartTimeOf(b)
    /\ Cardinality(DOMAIN songplays) >= 2

\* a songplays table without its songplay_id column
WithoutIds(table) == Select(table, [r \in DOMAIN table |-> StripId(r)])

\* the output columns, but for songplay_id, of the deduplicated join of the
\* current input
JoinedOutput ==
    LET j == Joined(LogFrame(log_data, tz), song_data)
    IN  Select(j, [r \in DOMAIN j |->
                      StripId(SongplaysSelect(WithColumn(r, "songplay_id", 0)))])

\* C8 as stated: a run on the input of the completed run before it leaves
\* all five datasets as they were.
C8_RerunUnchanged ==
    (rerun /\ pc = "done") => Snapshot = last

\* C8 amended: after a completed run each dataset is a table derived from
\* the current input, with nothing of an earlier run in it; a run on the
\* input of the run before leaves times unchanged, songplays unchanged but
\* for the songplay_id values, and songs, artists and users unchanged when
\* the records that share a key agree on the table's columns.
C8_OverwriteDerived ==
    pc = "done" =>
        /\ songs \in songs_table(song_data)
        /\ artists \in artists_table(song_data)
        /\ users \in users_table(Filtered(log_data))
        /\ times \in time_table(LogFrame(log_data, tz))
        /\ WithoutIds(songplays) = JoinedOutput
        /\ rerun =>
              /\ times = last.times
              /\ WithoutIds(songplays) = WithoutIds(last.songplays)
              /\ CatalogConsistent => songs = last.songs /\ artists = last.artists
              /\ ListenersConsistent => users = last.users

\* a run completed on the input of the run before and kept another of the
\* users rows that share a userId
C8_Witness ==
    /\ rerun
    /\ pc = "done"
    /\ songplays # EmptyBag
    /\ users # last.users

\* C9 as stated: no two songplays rows agree on every column but
\* songplay_id.
C9_NoRowsEqualButId ==
    pc = "done" =>
        \A a, b \in DOMAIN songplays : StripId(a) = StripId(b) => a = b

\* C9 amended: an event yields as many songplays rows as there are distinct
\* catalog records matching it; copies of one catalog record do not
\* multiply it, records differing in any column do.
C9_RowsPerDistinctMatch ==
    pc = "done" =>
        \A e \in PlayEvents :
            RowsOf(e) = Cardinality({s \in Catalog : Matches(e, s)})

\* a completed run joined an event with a catalog record held in two copies
C9_Witness ==
    /\ pc = "done"
    /\ \E e \in PlayEvents, s \in Catalog : Matches(e, s) /\ song_data[s] >= 2

\* the log records of the input are pairwise distinct
EventsDistinct == \A e \in DOMAIN log_data : log_data[e] = 1

\* C10: when the log records are pairwise distinct, a NextSong event yields
\* no songplays row if no catalog record equals it on title, artist name
\* and duration, exactly one row if exactly one does, and no row has a null
\* song_id.
C10_InnerJoinExactness ==
    (pc = "done" /\ EventsDistinct) =>
        /\ \A e \in PlayEvents :
              /\ CopiesMatching(e) = 0 => RowsOf(e) = 0
              /\ CopiesMatching(e) = 1 => RowsOf(e) = 1
        /\ \A r \in DOMAIN songplays : r.song_id # Null

\* a completed run had one event with exactly one match and one that
\* misses its catalog record on duration alone
C10_Witness ==
    /\ pc = "done"
    /\ EventsDistinct
    /\ \E e \in PlayEvents : CopiesMatching(e) = 1
    /\ \E e \in PlayEvents, s \in Catalog :
          /\ CopiesMatching(e) = 0
          /\ e.song = s.title /\ e.artist = s.artist_name /\ e.length # s.duration

====
